---------------------------- MODULE Spec2Model ----------------------------
(***************************************************************************)
(* A model of new_sji.py: the IRIS level 2 slit-jaw-imager reader          *)
(* (read_iris_sji_level2_fits), the cube class IRISMapCube with its        *)
(* exposure time correction, and the sequence class IRISMapCubeSequence.   *)
(*                                                                         *)
(* Python values are records, so that None can be compared with anything:  *)
(*   None          [none |-> TRUE]                                         *)
(*   a bool        [bool |-> b]                                            *)
(*   a str         [str |-> s]                                             *)
(*   an int        [int |-> i]                                             *)
(*   a float       [n |-> numerator, d |-> denominator], d = 0 for NaN     *)
(*   an ndarray    [shape |-> <<..>>, vals |-> <<..>>]  (row-major)        *)
(*   a time        [time |-> float seconds]                                *)
(* Floats are modelled as exact rationals plus NaN.                        *)
(***************************************************************************)
EXTENDS Integers, Sequences, FiniteSets, TLC

\* ------------------------------------------------------------------ bounds

\* The longest list of file names handed to the reader.
MaxFiles == 2
\* The largest number of frames (length of axis 0) of a constructed cube.
MaxFrames == 2
\* The largest rank of a constructed cube's data.
MaxRank == 4
\* The largest number of cubes alive at once in the cube specification.
MaxCubes == 3
\* The longest list of cubes handed to the sequence constructor.
MaxSeqLen == 3

\* --------------------------------------------------------- program constants

BAD_PIXEL_VALUE_SCALED == -200
BAD_PIXEL_VALUE_UNSCALED == -32768

\* ------------------------------------------------------------ python values

None == [none |-> TRUE]
PyBool(b) == [bool |-> b]
PyStr(s) == [str |-> s]
PyInt(i) == [int |-> i]

IsNone(v) == "none" \in DOMAIN v

\* Python truthiness of the values the program tests: `if not self.scaled`,
\* `if startobs`.
Truthy(v) ==
    IF "none" \in DOMAIN v THEN FALSE
    ELSE IF "bool" \in DOMAIN v THEN v.bool
    ELSE IF "str" \in DOMAIN v THEN v.str # ""
    ELSE IF "int" \in DOMAIN v THEN v.int # 0
    ELSE TRUE

\* ------------------------------------------------------------------- floats

RECURSIVE Gcd(_, _)
Gcd(a, b) == IF b = 0 THEN a ELSE Gcd(b, a % b)

Abs(x) == IF x < 0 THEN -x ELSE x

NaN == [n |-> 0, d |-> 0]
IsNaN(x) == x.d = 0

\* n/d in lowest terms, d > 0.
Norm(n, d) ==
    LET g == Gcd(Abs(n), Abs(d))
        s == IF d < 0 THEN -1 ELSE 1
    IN  [n |-> (s * n) \div g, d |-> (s * d) \div g]

Flt(i) == [n |-> i, d |-> 1]

\* IEEE equality: NaN equals nothing, itself included.
FEq(x, y) == ~IsNaN(x) /\ ~IsNaN(y) /\ x = y

\* x / y and x * y; NaN propagates.  Divisors are exposure times, which are
\* positive, so the infinities never arise.
FDiv(x, y) ==
    IF IsNaN(x) \/ IsNaN(y) \/ y.n = 0 THEN NaN ELSE Norm(x.n * y.d, x.d * y.n)
FMul(x, y) ==
    IF IsNaN(x) \/ IsNaN(y) THEN NaN ELSE Norm(x.n * y.n, x.d * y.d)
FAdd(x, y) ==
    IF IsNaN(x) \/ IsNaN(y) THEN NaN ELSE Norm(x.n * y.d + y.n * x.d, x.d * y.d)

\* ------------------------------------------------------------------- arrays

RECURSIVE Prod(_)
Prod(s) == IF s = <<>> THEN 1 ELSE Head(s) * Prod(Tail(s))

Array(shape, vals) == [shape |-> shape, vals |-> vals]
Ndim(a) == Len(a.shape)
Size(a) == Len(a.vals)

\* The multi-index (0-based, one entry per axis) of flat position k (1-based).
MultiIndex(shape, k) ==
    [j \in 1..Len(shape) |->
        ((k - 1) \div Prod(SubSeq(shape, j + 1, Len(shape)))) % shape[j]]

\* The flat position (1-based) of a 0-based multi-index.
RECURSIVE FlatIndex(_, _)
FlatIndex(shape, mi) ==
    IF shape = <<>> THEN 1
    ELSE Head(mi) * Prod(Tail(shape)) + FlatIndex(Tail(shape), Tail(mi))

\* numpy broadcasting of b against a, for Ndim(b) <= Ndim(a): shapes are
\* aligned on their last axes and an axis of length 1 is stretched.
Broadcastable(a, b) ==
    /\ Ndim(b) <= Ndim(a)
    /\ \A j \in 1..Ndim(b) :
          LET aj == a.shape[Ndim(a) - Ndim(b) + j]
          IN  b.shape[j] = aj \/ b.shape[j] = 1

\* The element of b that meets a's element at flat position k.
BroadcastElem(a, b, k) ==
    LET mi == MultiIndex(a.shape, k)
        off == Ndim(a) - Ndim(b)
        bi == [j \in 1..Ndim(b) |-> IF b.shape[j] = 1 THEN 0 ELSE mi[off + j]]
    IN  b.vals[FlatIndex(b.shape, bi)]

\* exposure_time_s[:, np.newaxis, ...]: n singleton axes appended.
AddNewAxes(a, n) == Array(a.shape \o [j \in 1..n |-> 1], a.vals)

\* -------------------------------------------------------------------- units

\* A unit is a named detector unit times seconds to the power s.
Unit(name, s) == [name |-> name, s |-> s]

\* iris_tools.DN_UNIT: the unit of each detector type.
DN_UNIT(key) ==
    IF key = "SJI" THEN Unit("DN_IRIS_SJI", 0) ELSE Unit("DN_IRIS_SJI_UNSCALED", 0)

\* Whether a unit carries an inverse-time factor.
HasInverseTime(unit) == unit.s < 0

\* ---------------------------------------------------------------- FITS files

HeaderKeys ==
    {"STARTOBS", "ENDOBS", "TELESCOP", "INSTRUME", "TWAVE1", "OBSID", "OBS_DESC"}

\* The column-index keys of the auxiliary table's header, in column order.
TableKeys ==
    <<"EXPTIMES", "TIME", "PZTX", "PZTY", "XCENIX", "YCENIX", "OBS_VRIX", "OPHASEIX">>

SetOf(seq) == {seq[i] : i \in DOMAIN seq}

T0 == "2013-10-01T00:00:00.000"
T1 == "2013-10-01T01:00:00.000"

\* sunpy.time.parse_time: a time string to a time, or an error for a string
\* that is no time.
ParseTime(v) ==
    IF v.str = T0 THEN [time |-> Flt(0)]
    ELSE IF v.str = T1 THEN [time |-> Flt(3600)]
    ELSE [err |-> "ValueError"]

\* t + timedelta(seconds=s)
AddSeconds(t, s) == [time |-> FAdd(t.time, s)]

\* A full primary header; obsid is the observation's id.
FullHeader(obsid) ==
    [k \in HeaderKeys |->
        CASE k = "STARTOBS" -> PyStr(T0)
          [] k = "ENDOBS"   -> PyStr(T1)
          [] k = "TELESCOP" -> PyStr("IRIS")
          [] k = "INSTRUME" -> PyStr("SJI")
          [] k = "TWAVE1"   -> PyStr("1400.0")
          [] k = "OBSID"    -> PyStr(obsid)
          [] OTHER          -> PyStr("Large sit-and-stare")]

\* A header without the keys of `missing`.
Without(hdr, missing) == [k \in (DOMAIN hdr) \ missing |-> hdr[k]]

\* The auxiliary table's header: each key's column index (0-based).
FullTableHeader == [k \in SetOf(TableKeys) |->
                      (CHOOSE i \in DOMAIN TableKeys : TableKeys[i] = k) - 1]

\* Row i of the auxiliary table: exposure time i + 1 seconds, time offset
\* 10 (i - 1) seconds, then the pointing, velocity and phase values.
AuxRow(i) == <<Flt(i + 1), Flt(10 * (i - 1)), Flt(1), Flt(2), Flt(3), Flt(4),
               Flt(5), Flt(6)>>
AuxTable(frames) == [i \in 1..frames |-> AuxRow(i)]

\* The primary arrays of the files: frames x 2 x 1 images holding the scaled
\* sentinel, the unscaled sentinel, or neither.
ImageCube(frames, v1, v2) ==
    Array(<<frames, 2, 1>>,
          [k \in 1..(2 * frames) |->
              IF k = 1 THEN Flt(v1) ELSE IF k = 2 THEN Flt(v2) ELSE Flt(10 * k)])

FileData ==
    { ImageCube(2, 10, 20),
      ImageCube(2, BAD_PIXEL_VALUE_SCALED, BAD_PIXEL_VALUE_UNSCALED),
      ImageCube(1, BAD_PIXEL_VALUE_SCALED, BAD_PIXEL_VALUE_SCALED) }

File(hdr, data, auxhdr, aux) ==
    [hdr |-> hdr, data |-> data, auxhdr |-> auxhdr, aux |-> aux]

ObsIds == {"3620258102", "3820259253"}

\* Sound files, of every primary array and observation id.
SoundFiles ==
    { File(FullHeader(o), d, FullTableHeader, AuxTable(d.shape[1])) :
        o \in ObsIds, d \in FileData }

\* Files whose primary header lacks one key, or every key.
SparseFiles ==
    { File(Without(FullHeader("3620258102"), m), ImageCube(2, 10, 20),
           FullTableHeader, AuxTable(2)) :
        m \in {{k} : k \in HeaderKeys} \cup {HeaderKeys} }

\* Files whose table header lacks a column-index key (the first, the second
\* or the last the loop body reads), whose start time is no time string, or
\* whose table has one row too many for the image cube.
BrokenFiles ==
    { File(FullHeader("3620258102"), ImageCube(2, 10, 20),
           Without(FullTableHeader, {k}), AuxTable(2)) :
        k \in {"EXPTIMES", "TIME", "OPHASEIX"} }
    \cup
    { File([FullHeader("3620258102") EXCEPT !["STARTOBS"] = PyStr("yesterday")],
           ImageCube(2, 10, 20), FullTableHeader, AuxTable(2)),
      File(FullHeader("3620258102"), ImageCube(2, 10, 20),
           FullTableHeader, AuxTable(3)) }

Files == SoundFiles \cup SparseFiles \cup BrokenFiles

\* header.get(key, None)
HeaderGet(hdr, k) == IF k \in DOMAIN hdr THEN hdr[k] ELSE None

\* hdulist[1].data[:, hdulist[1].header[key]]: one column of the table.
Column(f, key) == [i \in 1..Len(f.aux) |-> f.aux[i][f.auxhdr[key] + 1]]

\* ------------------------------------------------------------ IRISMapCube

IsScalar(v) == "scalar" \in DOMAIN v

\* dict lookup in an ordered dict, kept as a sequence of <<key, value>>.
Lookup(dict, key) ==
    dict[CHOOSE i \in DOMAIN dict : dict[i][1] = key][2]

\* NDCube's reading of the extra_coords argument, a list of
\* (name, axis, value): the dict NDCube.extra_coords gives back.
ExtraCoordsDict(input) ==
    [i \in DOMAIN input |->
        <<input[i][1], [axis |-> input[i][2], value |-> input[i][3]]>>]

\* ndcube.utils.cube.convert_extra_coords_dict_to_input_format
ConvertExtraCoordsDictToInputFormat(dict) ==
    [i \in DOMAIN dict |-> <<dict[i][1], dict[i][2].axis, dict[i][2].value>>]

\* NDCube refuses an extra coordinate whose length is not that of its data
\* axis; a scalar coordinate belongs to a missing axis.
ValidExtraCoords(data, input, missing_axis) ==
    \A i \in DOMAIN input :
        IF IsScalar(input[i][3]) THEN ~IsNone(missing_axis)
        ELSE /\ input[i][2] + 1 \in DOMAIN data.shape
             /\ input[i][3].shape = <<data.shape[input[i][2] + 1]>>

\* IRISMapCube.__init__: scaled is stored as given (None when not given), the
\* rest is NDCube's.
IRISMapCube(data, wcs, uncertainty, unit, meta, mask, extra_coords, missing_axis, scaled) ==
    [data |-> data, wcs |-> wcs, uncertainty |-> uncertainty, unit |-> unit,
     meta |-> meta, mask |-> mask, extra_coords |-> ExtraCoordsDict(extra_coords),
     missing_axis |-> missing_axis, scaled |-> scaled]

\* ------------------------------------------------- read_iris_sji_level2_fits

\* a[a == sentinel] = value
ReplaceEqual(a, sentinel, value) ==
    Array(a.shape, [k \in DOMAIN a.vals |->
                       IF FEq(a.vals[k], Flt(sentinel)) THEN value ELSE a.vals[k]])

\* a == sentinel, elementwise
EqualMask(a, sentinel) ==
    Array(a.shape, [k \in DOMAIN a.vals |-> FEq(a.vals[k], Flt(sentinel))])

\* The mask of scaled data: `data_nan_masked == BAD_PIXEL_VALUE_SCALED`,
\* evaluated on the array the line before has written NaN into (data and
\* data_nan_masked are the same array, hdulist[0].data).
ScaledMask(data_nan_masked) == EqualMask(data_nan_masked, BAD_PIXEL_VALUE_SCALED)

\* sqrt(data in photons + readout noise in photons squared), back in the
\* data's unit.  The detector constants are iris_tools', so the value for a
\* sample v is kept as scale * sigma(v); NaN samples give NaN.
Uncertainty(data_nan_masked) ==
    Array(data_nan_masked.shape,
          [k \in DOMAIN data_nan_masked.vals |->
              [scale |-> IF IsNaN(data_nan_masked.vals[k]) THEN NaN ELSE Flt(1),
               sigmaOf |-> data_nan_masked.vals[k]]])

\* The metadata of a file's cube.
Meta(f) ==
    LET startobs == HeaderGet(f.hdr, "STARTOBS")
        endobs == HeaderGet(f.hdr, "ENDOBS")
    IN  [k \in HeaderKeys \cup {"NBFRAMES"} |->
            CASE k = "STARTOBS" -> IF Truthy(startobs) THEN ParseTime(startobs) ELSE None
              [] k = "ENDOBS"   -> IF Truthy(endobs) THEN ParseTime(endobs) ELSE None
              [] k = "NBFRAMES" -> PyInt(f.data.shape[1])
              [] OTHER          -> HeaderGet(f.hdr, k)]

\* The first table key, in the order the loop body reads them, that the
\* table header lacks; "" when it has them all.
FirstMissingTableKey(f) ==
    IF \A i \in DOMAIN TableKeys : TableKeys[i] \in DOMAIN f.auxhdr THEN ""
    ELSE TableKeys[CHOOSE i \in DOMAIN TableKeys :
                      /\ TableKeys[i] \notin DOMAIN f.auxhdr
                      /\ \A j \in 1..(i - 1) : TableKeys[j] \in DOMAIN f.auxhdr]

Quantity(a, unit) == [shape |-> a.shape, vals |-> a.vals, qunit |-> unit]
Vector(vals) == Array(<<Len(vals)>>, vals)

\* The extra_coords list of a file whose table has every column.
ExtraCoords(f) ==
    LET start == ParseTime(f.hdr["STARTOBS"])
        offsets == Column(f, "TIME")
    IN  << <<"TIME", 0, Vector([i \in DOMAIN offsets |-> AddSeconds(start, offsets[i])])>>,
           <<"PZTX", 0, Quantity(Vector(Column(f, "PZTX")), "arcsec")>>,
           <<"PZTY", 0, Quantity(Vector(Column(f, "PZTY")), "arcsec")>>,
           <<"XCENIX", 0, Quantity(Vector(Column(f, "XCENIX")), "arcsec")>>,
           <<"YCENIX", 0, Quantity(Vector(Column(f, "YCENIX")), "arcsec")>>,
           <<"OBS_VRIX", 0, Quantity(Vector(Column(f, "OBS_VRIX")), "m/s")>>,
           <<"OPHASEIX", 0, Vector(Column(f, "OPHASEIX"))>>,
           <<"EXPOSURE TIME", 0, Vector(Column(f, "EXPTIMES"))>> >>

Raise(err) == [raised |-> err]
Raised(r) == "raised" \in DOMAIN r

\* The error the loop body raises on file f, "" when it raises none, in the
\* order of the statements: the table columns (EXPTIMES, then TIME before the
\* start time is looked up, parsed and added to each row's offset, then the
\* rest), the observation's start and end times, the cube's construction.
BodyError(f) ==
    LET tk == FirstMissingTableKey(f) IN
    IF tk \in {"EXPTIMES", "TIME"} THEN "KeyError"
    ELSE IF Len(f.aux) > 0 /\ "STARTOBS" \notin DOMAIN f.hdr THEN "KeyError"
    ELSE IF Len(f.aux) > 0 /\ "err" \in DOMAIN ParseTime(f.hdr["STARTOBS"])
         THEN "ValueError"
    ELSE IF tk # "" THEN "KeyError"
    ELSE IF \E k \in {"STARTOBS", "ENDOBS"} :
               /\ Truthy(HeaderGet(f.hdr, k))
               /\ "err" \in DOMAIN ParseTime(f.hdr[k])
         THEN "ValueError"
    ELSE IF ~ValidExtraCoords(f.data, ExtraCoords(f), None) THEN "ValueError"
    ELSE ""

\* The cube the loop body builds from file f when it raises nothing.
FileCube(f, mm) ==
    IF mm
    THEN IRISMapCube(ReplaceEqual(f.data, BAD_PIXEL_VALUE_UNSCALED, Flt(0)),
                     [header |-> f.hdr], None, DN_UNIT("SJI_UNSCALED"), Meta(f),
                     None, ExtraCoords(f), None, PyBool(FALSE))
    ELSE LET data_nan_masked == ReplaceEqual(f.data, BAD_PIXEL_VALUE_SCALED, NaN)
         IN  IRISMapCube(data_nan_masked, [header |-> f.hdr],
                         Uncertainty(data_nan_masked), DN_UNIT("SJI"), Meta(f),
                         ScaledMask(data_nan_masked), ExtraCoords(f), None,
                         PyBool(TRUE))

\* ------------------------------------------------------ IRISMapCubeSequence

\* A slip: only the last cube is compared with the first.
ObsIdsDifferLastOnly(data_list) ==
    /\ data_list # <<>>
    /\ data_list[Len(data_list)].meta["OBSID"] # data_list[1].meta["OBSID"]

\* cube.meta["OBSID"] != data_list[0].meta["OBSID"] for some cube.
ObsIdsDiffer(data_list) ==
    \E i \in DOMAIN data_list :
        data_list[i].meta["OBSID"] # data_list[1].meta["OBSID"]

\* IRISMapCubeSequence.__init__: KeyError when a cube's meta has no OBSID,
\* ValueError when the ids differ, else the sequence of the cubes as given.
IRISMapCubeSequence(data_list, meta) ==
    IF \E i \in DOMAIN data_list : "OBSID" \notin DOMAIN data_list[i].meta
    THEN Raise("KeyError")
    ELSE IF ObsIdsDiffer(data_list) THEN Raise("ValueError")
    ELSE [sequence |-> data_list, meta |-> meta, common_axis |-> 0]

\* ------------------------------------------- exposure time correction

\* One element divided or multiplied by an exposure time; an uncertainty
\* element scale * sigma(v) has its scale divided or multiplied.
Scale(x, e, undo) ==
    IF "sigmaOf" \in DOMAIN x
    THEN [x EXCEPT !.scale = IF undo THEN FMul(x.scale, e) ELSE FDiv(x.scale, e)]
    ELSE IF undo THEN FMul(x, e) ELSE FDiv(x, e)

\* old_data / exposure_time (old_data * exposure_time), with broadcasting.
ScaleArray(a, exposure_time, undo) ==
    Array(a.shape, [k \in DOMAIN a.vals |->
                       Scale(a.vals[k], BroadcastElem(a, exposure_time, k), undo)])

\* iris_tools.calculate_exposure_time_correction: unless forced, nothing is
\* done to data whose unit already carries inverse time.
CalculateExposureTimeCorrection(arrays, unit, exposure_time, force) ==
    IF ~force /\ HasInverseTime(unit) THEN <<arrays, unit>>
    ELSE << [j \in DOMAIN arrays |-> ScaleArray(arrays[j], exposure_time, FALSE)],
            Unit(unit.name, unit.s - 1) >>

\* iris_tools.uncalculate_exposure_time_correction: unless forced, nothing is
\* done to data whose unit carries no inverse time.
UncalculateExposureTimeCorrection(arrays, unit, exposure_time, force) ==
    IF ~force /\ ~HasInverseTime(unit) THEN <<arrays, unit>>
    ELSE << [j \in DOMAIN arrays |-> ScaleArray(arrays[j], exposure_time, TRUE)],
            Unit(unit.name, unit.s + 1) >>

\* A slip: the method is refused only when scaled was never set.
NotScaledWhenUnset(self) == IsNone(self.scaled)

\* `if not self.scaled`: the method is refused.
NotScaled(self) == ~Truthy(self.scaled)

\* u.Quantity(value, unit='s').value: the numbers, as an array (of no axes
\* for a scalar).
ExposureTimeSeconds(value) ==
    IF IsScalar(value) THEN Array(<<>>, <<value.scalar>>)
    ELSE Array(value.shape, value.vals)

\* A slip: the exposure times are given no new axes.
ReshapeExposureTimeNoNewAxes(self, value) ==
    IF IsScalar(value) \/ Ndim(self.data) \in 1..3 THEN ExposureTimeSeconds(value)
    ELSE Raise("ValueError")

\* The exposure times, given the singleton axes that let them broadcast with
\* the data; ValueError for data of no rank from 1 to 3.  A scalar exposure
\* time is left as it is, whatever the data's rank.
ReshapeExposureTime(self, value) ==
    LET exposure_time_s == ExposureTimeSeconds(value) IN
    IF IsScalar(value) THEN exposure_time_s
    ELSE IF Ndim(self.data) = 1 THEN exposure_time_s
    ELSE IF Ndim(self.data) = 2 THEN AddNewAxes(exposure_time_s, 1)
    ELSE IF Ndim(self.data) = 3 THEN AddNewAxes(exposure_time_s, 2)
    ELSE Raise("ValueError")

\* The cube the method returns: the new arrays and unit, and self's wcs,
\* meta, mask, missing_axis and extra_coords; scaled is not handed on, so
\* it is the constructor's default, None.
CorrectedCube(self, new_data_arrays, new_unit) ==
    IRISMapCube(new_data_arrays[1], self.wcs, new_data_arrays[2], new_unit,
                self.meta, self.mask,
                ConvertExtraCoordsDictToInputFormat(self.extra_coords),
                self.missing_axis, None)

\* IRISMapCube.apply_exposure_time_correction: what the call on self does.
\* [raised, touched] or [cube, exposure_time_s, touched]: the error, or the
\* new cube and the exposure times handed to iris_tools, and the attributes
\* of self read before that, in order.
ApplyExposureTimeCorrection(self, undo, force) ==
    IF NotScaled(self)
    THEN [raised |-> "ValueError", touched |-> <<"scaled">>]
    ELSE
    LET exposure_time_s ==
            ReshapeExposureTime(self, Lookup(self.extra_coords, "EXPOSURE TIME").value)
    IN
    IF Raised(exposure_time_s)
    THEN [raised |-> exposure_time_s.raised,
          touched |-> <<"scaled", "extra_coords", "data">>]
    ELSE IF IsNone(self.uncertainty)
    THEN [raised |-> "AttributeError",
          touched |-> <<"scaled", "extra_coords", "data", "uncertainty">>]
    ELSE IF ~Broadcastable(self.data, exposure_time_s)
    THEN [raised |-> "ValueError",
          touched |-> <<"scaled", "extra_coords", "data", "uncertainty", "unit">>]
    ELSE
    LET new == IF undo
               THEN UncalculateExposureTimeCorrection(
                        <<self.data, self.uncertainty>>, self.unit,
                        exposure_time_s, force)
               ELSE CalculateExposureTimeCorrection(
                        <<self.data, self.uncertainty>>, self.unit,
                        exposure_time_s, force)
    IN  [cube |-> CorrectedCube(self, new[1], new[2]),
         exposure_time_s |-> exposure_time_s,
         touched |-> <<"scaled", "extra_coords", "data", "uncertainty", "unit",
                       "wcs", "meta", "mask", "missing_axis">>]

\* -------------------------------------------------------------------- state

VARIABLES
    pc,             \* where the reader's call is: idle, for, body, close,
                    \* returned, raised
    arg,            \* the filenames argument: [str |-> path] or [list |-> paths]
    filenames,      \* the list the loop runs over (a path is the file it names)
    memmap,         \* the memmap argument
    idx,            \* the position of the loop in filenames (1-based)
    open,           \* the positions whose hdulist is open
    list_of_cubes,  \* the cubes built so far
    result,         \* what the call returned or raised
    heap,           \* the cubes alive, by identity (position)
    origin,         \* how each cube of the heap came to be
    lastCall        \* the last method or constructor call on the heap's cubes

vars == <<pc, arg, filenames, memmap, idx, open, list_of_cubes, result, heap,
          origin, lastCall>>

readerVars == <<pc, arg, filenames, memmap, idx, open, list_of_cubes, result>>
heapVars == <<heap, origin, lastCall>>

NoCall == [op |-> "none"]

\* ------------------------------------------- read_iris_sji_level2_fits, run

RECURSIVE SeqsUpTo(_, _)
\* The sequences over S of length at most n.
SeqsUpTo(S, n) ==
    IF n = 0 THEN {<<>>}
    ELSE LET shorter == SeqsUpTo(S, n - 1)
         IN  shorter \cup {Append(q, x) : q \in {r \in shorter : Len(r) = n - 1}, x \in S}

\* The call: a str is made a list of one.
Call(a, mm) ==
    /\ pc = "idle"
    /\ arg' = a
    /\ filenames' = IF "str" \in DOMAIN a THEN <<a.str>> ELSE a.list
    /\ memmap' = mm
    /\ list_of_cubes' = <<>>
    /\ idx' = 1
    /\ pc' = "for"
    /\ UNCHANGED <<open, result, heapVars>>

\* fits.open(filename, ...)
OpenFile ==
    /\ pc = "for"
    /\ idx <= Len(filenames)
    /\ open' = open \cup {idx}
    /\ pc' = "body"
    /\ UNCHANGED <<arg, filenames, memmap, idx, list_of_cubes, result, heapVars>>

\* The loop body up to list_of_cubes.append(...): an error leaves the loop
\* and the call at once.
Body ==
    /\ pc = "body"
    /\ LET f == filenames[idx] IN
       IF BodyError(f) # ""
       THEN /\ result' = Raise(BodyError(f))
            /\ pc' = "raised"
            /\ UNCHANGED list_of_cubes
       ELSE /\ list_of_cubes' = Append(list_of_cubes, FileCube(f, memmap))
            /\ pc' = "close"
            /\ UNCHANGED result
    /\ UNCHANGED <<arg, filenames, memmap, idx, open, heapVars>>

\* hdulist.close(), the last statement of the loop body.
CloseFile ==
    /\ pc = "close"
    /\ open' = open \ {idx}
    /\ idx' = idx + 1
    /\ pc' = "for"
    /\ UNCHANGED <<arg, filenames, memmap, list_of_cubes, result, heapVars>>

\* A slip: a sequence is made of one cube too.
ReturnValueAlwaysSequence(names, cubes) ==
    IF Len(names) = 0 THEN Raise("UnboundLocalError")
    ELSE IRISMapCubeSequence(cubes, cubes[Len(cubes)].meta)

\* What follows the loop: the one cube, or the sequence of them all with the
\* last file's meta (a name no iteration has bound when there was no file).
ReturnValue(names, cubes) ==
    IF Len(names) = 1 THEN [cube |-> cubes[1]]
    ELSE IF Len(names) = 0 THEN Raise("UnboundLocalError")
    ELSE IRISMapCubeSequence(cubes, cubes[Len(cubes)].meta)

Return ==
    /\ pc = "for"
    /\ idx > Len(filenames)
    /\ result' = ReturnValue(filenames, list_of_cubes)
    /\ pc' = IF Raised(result') THEN "raised" ELSE "returned"
    /\ UNCHANGED <<arg, filenames, memmap, idx, open, list_of_cubes, heapVars>>

Arguments ==
    {[str |-> f] : f \in Files}
    \cup {[list |-> q] : q \in SeqsUpTo(Files, MaxFiles)}

Init ==
    /\ pc = "idle"
    /\ arg = [list |-> <<>>]
    /\ filenames = <<>>
    /\ memmap = FALSE
    /\ idx = 1
    /\ open = {}
    /\ list_of_cubes = <<>>
    /\ result = None
    /\ heap = <<>>
    /\ origin = <<>>
    /\ lastCall = NoCall

ReadNext ==
    \/ pc = "idle" /\ \E a \in Arguments, mm \in BOOLEAN : Call(a, mm)
    \/ OpenFile
    \/ Body
    \/ CloseFile
    \/ Return

\* One call of read_iris_sji_level2_fits, on any argument.
SpecRead == Init /\ [][ReadNext]_vars

\* ------------------------------------------------------- cubes, constructed

\* Data of the given rank: `frames` frames, every other axis of length 2,
\* position k holding 10 k.
DataCube(rank, frames) ==
    LET shape == <<frames>> \o [j \in 1..(rank - 1) |-> 2]
    IN  Array(shape, [k \in 1..Prod(shape) |-> Flt(10 * k)])

\* The exposure time coordinate: per frame (i + 1 seconds for frame i), or
\* the scalar left on a cube whose time axis was sliced away.
ExposureTimes(frames, scalar) ==
    IF scalar THEN [scalar |-> Flt(2)]
    ELSE Vector([i \in 1..frames |-> Flt(i + 1)])

\* A cube made by calling IRISMapCube directly.
NewCube(rank, frames, scalar, s, withUncertainty, scaled) ==
    LET data == DataCube(rank, frames)
    IN  IRISMapCube(data, [naxis |-> rank],
                    IF withUncertainty THEN Uncertainty(data) ELSE None,
                    Unit("DN_IRIS_SJI", s), [k \in {"OBSID"} |-> PyStr("3620258102")],
                    None, << <<"EXPOSURE TIME", 0, ExposureTimes(frames, scalar)>> >>,
                    IF scalar THEN [list |-> <<TRUE>>] ELSE None, scaled)

\* IRISMapCube(...): the first cube of the heap.
Construct(rank, frames, scalar, s, withUncertainty, scaled) ==
    /\ heap = <<>>
    /\ heap' = <<NewCube(rank, frames, scalar, s, withUncertainty, scaled)>>
    /\ origin' = <<[kind |-> "construct"]>>
    /\ lastCall' = NoCall
    /\ UNCHANGED readerVars

\* read_iris_sji_level2_fits(path, memmap) on one sound file: the first cube
\* of the heap.
Read(f, mm) ==
    /\ heap = <<>>
    /\ BodyError(f) = ""
    /\ heap' = <<ReturnValue(<<f>>, <<FileCube(f, mm)>>).cube>>
    /\ origin' = <<[kind |-> "read", file |-> f, memmap |-> mm]>>
    /\ lastCall' = NoCall
    /\ UNCHANGED readerVars

\* A slip: the correction overwrites the cube it is called on (the copy=False
\* of the method's docstring) and returns it.
ApplyInPlace(i, undo, force) ==
    /\ i \in DOMAIN heap
    /\ LET r == ApplyExposureTimeCorrection(heap[i], undo, force)
           call == [op |-> "apply", self |-> i, undo |-> undo, force |-> force,
                    before |-> heap[i], touched |-> r.touched]
       IN  IF Raised(r)
           THEN /\ lastCall' = [raised |-> r.raised, ret |-> 0] @@ call
                /\ UNCHANGED <<heap, origin>>
           ELSE /\ heap' = [heap EXCEPT ![i] = [r.cube EXCEPT !.scaled = heap[i].scaled]]
                /\ lastCall' = [raised |-> "", ret |-> i,
                                 exposure_time_s |-> r.exposure_time_s] @@ call
                /\ UNCHANGED origin
    /\ UNCHANGED readerVars

\* cube.apply_exposure_time_correction(undo, force) on the heap's cube i: the
\* cube it returns is a new one, and cube i is not written.
Apply(i, undo, force) ==
    /\ i \in DOMAIN heap
    /\ LET r == ApplyExposureTimeCorrection(heap[i], undo, force)
           call == [op |-> "apply", self |-> i, undo |-> undo, force |-> force,
                    before |-> heap[i], touched |-> r.touched]
       IN  IF Raised(r)
           THEN /\ lastCall' = [raised |-> r.raised, ret |-> 0] @@ call
                /\ UNCHANGED <<heap, origin>>
           ELSE /\ Len(heap) < MaxCubes
                /\ heap' = Append(heap, r.cube)
                /\ origin' = Append(origin, [kind |-> "apply", self |-> i,
                                             undo |-> undo, force |-> force])
                /\ lastCall' = [raised |-> "", ret |-> Len(heap) + 1,
                                 exposure_time_s |-> r.exposure_time_s] @@ call
    /\ UNCHANGED readerVars

CubeNext ==
    \/ /\ heap = <<>>
       /\ \E rank \in 1..MaxRank, frames \in 1..MaxFrames, scalar \in BOOLEAN,
             s \in {0, -1}, withUncertainty \in BOOLEAN,
             scaled \in {PyBool(TRUE), PyBool(FALSE), None} :
             Construct(rank, frames, scalar, s, withUncertainty, scaled)
    \/ /\ heap = <<>>
       /\ \E f \in SoundFiles, mm \in BOOLEAN : Read(f, mm)
    \/ \E i \in DOMAIN heap, undo \in BOOLEAN, force \in BOOLEAN : Apply(i, undo, force)

\* A cube, read or constructed, and the corrections applied to it and to the
\* cubes they return.
SpecCube == Init /\ [][CubeNext]_vars

\* ------------------------------------------------------ sequences, constructed

\* The cubes sequences are made of: constructed with a meta whose OBSID is
\* either observation's id or None (as the reader leaves it for a file
\* without the key), or with a meta that has no OBSID.
SeqCubes ==
    { [NewCube(1, 1, FALSE, 0, TRUE, PyBool(TRUE)) EXCEPT !.meta = meta] :
        meta \in { [k \in {"OBSID"} |-> o] : o \in {PyStr(id) : id \in ObsIds} \cup {None} }
                 \cup { [k \in {"TELESCOP"} |-> PyStr("IRIS")] } }

\* One more cube on the heap.
AddCube(c) ==
    /\ Len(heap) < MaxCubes
    /\ heap' = Append(heap, c)
    /\ origin' = Append(origin, [kind |-> "construct"])
    /\ UNCHANGED <<lastCall, readerVars>>

\* IRISMapCubeSequence(data_list), data_list the heap's cubes at positions q.
\* The constructor keeps no state of its own, so a run makes one sequence.
NewSequence(q) ==
    /\ lastCall = NoCall
    /\ LET data_list == [j \in DOMAIN q |-> heap[q[j]]]
       IN  lastCall' = [op |-> "sequence", data_list |-> data_list,
                        result |-> IRISMapCubeSequence(data_list, None)]
    /\ UNCHANGED <<heap, origin, readerVars>>

SeqNext ==
    \/ \E c \in SeqCubes : AddCube(c)
    \/ /\ lastCall = NoCall
       /\ \E q \in SeqsUpTo(DOMAIN heap, MaxSeqLen) : NewSequence(q)

\* Cubes, and the sequences constructed from lists of them.
SpecSeq == Init /\ [][SeqNext]_vars

\* ------------------------------------------------------------------ claims

Ended == pc \in {"returned", "raised"}

\* The paths of the call's argument, in order.
Paths == IF "str" \in DOMAIN arg THEN <<arg.str>> ELSE arg.list

\* C1: in scaled mode (memmap=False), wherever a file's raw sample is the
\* scaled sentinel -200 its cube's data is NaN and its mask True, and
\* wherever it is not, the data is the raw sample and the mask False.
C1_SentinelMasked ==
    \A i \in DOMAIN list_of_cubes :
        ~memmap =>
            \A k \in DOMAIN filenames[i].data.vals :
                LET raw == filenames[i].data.vals[k]
                    cube == list_of_cubes[i]
                IN  IF raw = Flt(BAD_PIXEL_VALUE_SCALED)
                    THEN IsNaN(cube.data.vals[k]) /\ cube.mask.vals[k] = TRUE
                    ELSE cube.data.vals[k] = raw /\ cube.mask.vals[k] = FALSE

\* The last call is apply_exposure_time_correction(undo, force=False) on the
\* cube that apply_exposure_time_correction(undo=False, force=False)
\* returned for a cube read in scaled mode.
SecondCallOnRead(undo) ==
    /\ lastCall.op = "apply"
    /\ lastCall.undo = undo
    /\ ~lastCall.force
    /\ origin[lastCall.self].kind = "apply"
    /\ ~origin[lastCall.self].undo
    /\ ~origin[lastCall.self].force
    /\ origin[origin[lastCall.self].self].kind = "read"
    /\ ~origin[origin[lastCall.self].self].memmap

\* C2: for a cube read in scaled mode, a second
\* apply_exposure_time_correction(undo=False, force=False), on the cube the
\* first returned, raises nothing and returns a cube of the same unit and
\* the same sample values as the first result.
C2_SecondApplyIsNoOp ==
    SecondCallOnRead(FALSE) =>
        /\ lastCall.raised = ""
        /\ heap[lastCall.ret].unit = lastCall.before.unit
        /\ heap[lastCall.ret].data = lastCall.before.data

\* C3: for a cube read in scaled mode, apply_exposure_time_correction(
\* undo=False) followed by apply_exposure_time_correction(undo=True) on the
\* returned cube raises nothing and returns a cube with the sample values
\* and the unit of the original cube.
C3_ApplyThenUndoRestores ==
    SecondCallOnRead(TRUE) =>
        /\ lastCall.raised = ""
        /\ heap[lastCall.ret].unit = heap[origin[lastCall.self].self].unit
        /\ heap[lastCall.ret].data = heap[origin[lastCall.self].self].data

\* C4: apply_exposure_time_correction on a cube whose scaled flag is False
\* raises ValueError whatever undo and force are, having read nothing of
\* the cube but the flag and having changed nothing.
C4_UnscaledRefused ==
    (lastCall.op = "apply" /\ lastCall.before.scaled = PyBool(FALSE)) =>
        /\ lastCall.raised = "ValueError"
        /\ lastCall.touched = <<"scaled">>
        /\ lastCall.ret = 0
        /\ heap[lastCall.self] = lastCall.before

\* C4's case: a cube read with memmap=True, refused with undo and force set.
C4_Witness ==
    /\ lastCall.op = "apply"
    /\ origin[lastCall.self].kind = "read"
    /\ origin[lastCall.self].memmap
    /\ lastCall.before.scaled = PyBool(FALSE)
    /\ lastCall.undo /\ lastCall.force
    /\ lastCall.raised = "ValueError"

\* Every cube of the list has an OBSID in its meta.
AllHaveObsId(data_list) ==
    \A i \in DOMAIN data_list : "OBSID" \in DOMAIN data_list[i].meta

\* C5: IRISMapCubeSequence(data_list) raises ValueError whenever two cubes
\* of the list differ in meta['OBSID']; when all share one OBSID it succeeds
\* and holds the cubes in the order given.  So the members of every
\* sequence constructed have one OBSID.
C5_SequenceObsId ==
    (lastCall.op = "sequence" /\ AllHaveObsId(lastCall.data_list)) =>
        LET data_list == lastCall.data_list
            differ == \E i, j \in DOMAIN data_list :
                          data_list[i].meta["OBSID"] # data_list[j].meta["OBSID"]
        IN  IF differ
            THEN lastCall.result = Raise("ValueError")
            ELSE /\ ~Raised(lastCall.result)
                 /\ lastCall.result.sequence = data_list
                 /\ \A i, j \in DOMAIN lastCall.result.sequence :
                        lastCall.result.sequence[i].meta["OBSID"]
                            = lastCall.result.sequence[j].meta["OBSID"]

\* C5's case: a list of three cubes, the first two of one OBSID and the
\* third of another, is refused.
C5_Witness ==
    /\ lastCall.op = "sequence"
    /\ Len(lastCall.data_list) = 3
    /\ AllHaveObsId(lastCall.data_list)
    /\ lastCall.data_list[1].meta["OBSID"] = lastCall.data_list[2].meta["OBSID"]
    /\ lastCall.data_list[3].meta["OBSID"] # lastCall.data_list[1].meta["OBSID"]
    /\ lastCall.result = Raise("ValueError")

\* Every file of the call is read without error and they share one OBSID.
AllSound ==
    /\ \A i \in DOMAIN Paths : BodyError(Paths[i]) = ""
    /\ \A i, j \in DOMAIN Paths :
          HeaderGet(Paths[i].hdr, "OBSID") = HeaderGet(Paths[j].hdr, "OBSID")

C7_HandlesReleased ==
    /\ Cardinality(open) <= 1
    /\ pc = "for" => open = {}
    /\ Ended => open = {}

OnlyHeaderKeysMissing(f) ==
    /\ f.auxhdr = FullTableHeader
    /\ Len(f.aux) = f.data.shape[1]
    /\ \A k \in DOMAIN f.hdr : f.hdr[k] = FullHeader("3620258102")[k]

\* C9: when a file's primary header lacks one of STARTOBS, ENDOBS,
\* TELESCOP, INSTRUME, TWAVE1, OBSID, OBS_DESC, read_iris_sji_level2_fits
\* does not fail and the cube's meta has None for that key.
C9_MissingKeyGivesNone ==
    (Ended /\ "str" \in DOMAIN arg /\ OnlyHeaderKeysMissing(arg.str)) =>
        /\ pc = "returned"
        /\ \A k \in HeaderKeys \ DOMAIN arg.str.hdr : result.cube.meta[k] = None

\* The frame (1-based position along axis 0) of flat position k of array a.
FrameOf(a, k) == ((k - 1) \div (Size(a) \div a.shape[1])) + 1

\* The exposure time value stored on the last call's cube.
StoredExposure == Lookup(lastCall.before.extra_coords, "EXPOSURE TIME").value

\* The last call handed iris_tools the exposure times with a singleton axis
\* for every axis of the data but axis 0 (a scalar as it is), and returned a
\* cube of the input's shape whose every sample (and uncertainty) is the
\* input's, divided or multiplied by the exposure time of its own frame (by
\* the scalar, when the stored value is one); or, when the unit was left as
\* it was, the input's data and uncertainty.
ScaledPerFrame ==
    LET old == lastCall.before
        new == heap[lastCall.ret]
        e(k) == IF IsScalar(StoredExposure) THEN StoredExposure.scalar
                ELSE StoredExposure.vals[FrameOf(old.data, k)]
    IN  /\ lastCall.raised = ""
        /\ lastCall.exposure_time_s.shape =
              IF IsScalar(StoredExposure) THEN <<>>
              ELSE [j \in 1..Ndim(old.data) |-> IF j = 1 THEN old.data.shape[1] ELSE 1]
        /\ \A k \in DOMAIN old.data.vals :
              BroadcastElem(old.data, lastCall.exposure_time_s, k) = e(k)
        /\ new.data.shape = old.data.shape
        /\ IF new.unit = old.unit
           THEN new.data = old.data /\ new.uncertainty = old.uncertainty
           ELSE \A k \in DOMAIN old.data.vals :
                   /\ new.data.vals[k] = Scale(old.data.vals[k], e(k), lastCall.undo)
                   /\ new.uncertainty.vals[k]
                         = Scale(old.uncertainty.vals[k], e(k), lastCall.undo)

\* The last call is apply_exposure_time_correction on a scaled cube that
\* has an uncertainty array.
CallOnScaled ==
    /\ lastCall.op = "apply"
    /\ Truthy(lastCall.before.scaled)
    /\ ~IsNone(lastCall.before.uncertainty)

==========================================================================
